---- MODULE Spec2Model ----
(***************************************************************************)
(* cuDF accelerated file I/O (cpp/src/io/utilities/file_io_utilities.cpp): *)
(* the cuFile policy and shim singletons, the file wrapper, the factory    *)
(* functions and the sliced asynchronous read and write paths.             *)
(*                                                                         *)
(* Byte quantities are exact.  A byte quantity is a three-limb integer     *)
(* [top, hi, lo] of value top * 2^60 + hi * 2^30 + lo with hi and lo in    *)
(* 0 .. 2^30 - 1 and top any integer (negative values have top < 0), so    *)
(* that the widths of int (32 bits) and of size_t and ssize_t (64 bits)    *)
(* are the program's own.                                                  *)
(***************************************************************************)
EXTENDS Integers, Sequences, FiniteSets, TLC

VARIABLES
  env,         \* process environment: LIBCUDF_CUFILE_POLICY and CUFILE_ENV_PATH_JSON,
               \* and the value CUFILE_ENV_PATH_JSON had at process start
  userConfig,  \* the cuFile configuration file the user supplies
  cudfConfig,  \* the rewritten configuration file in tmp_config_dir
  config,      \* the cufile_config singleton
  shim,        \* the cufile_shim singleton
  os,          \* calls made to the loader and the driver, the error the shim captured
               \* when its construction first failed, the descriptors, the deregister
               \* and close calls made in order, and what process exit did
  engines,     \* the cufile_input_impl / cufile_output_impl objects alive
  lastCall,    \* the latest factory call: whether open() gave a descriptor, what the
               \* constructor threw, what the factory delivered
  calls        \* list: the read_async / write_async calls made so far; read, write:
               \* the task queues of the input and output engines' pools

vars == <<env, userConfig, cudfConfig, config, shim, os, engines, lastCall, calls>>

-----------------------------------------------------------------------------
(* Exact integers of the widths the program uses.                          *)

LimbBase == 2^30

Wide(t, h, l) ==
  LET h0 == h + (l \div LimbBase)
  IN  [top |-> t + (h0 \div LimbBase), hi |-> h0 % LimbBase, lo |-> l % LimbBase]

\* The integer n, for n in TLC's own range.
W(n) == Wide(0, 0, n)

Plus(a, b) == Wide(a.top + b.top, a.hi + b.hi, a.lo + b.lo)

Less(a, b) ==
  \/ a.top < b.top
  \/ a.top = b.top /\ a.hi < b.hi
  \/ a.top = b.top /\ a.hi = b.hi /\ a.lo < b.lo

IsNegative(a) == a.top < 0

\* a % m of the unsigned a, for a divisor m that divides 2^30 (4 MiB does).
Mod(a, m) == W(a.lo % m)

\* Conversion to int: the low 32 bits, read as two's complement.
ToInt(a) ==
  LET h4 == a.hi % 4
  IN  IF h4 >= 2 THEN Wide(0, h4 - 4, a.lo) ELSE Wide(0, h4, a.lo)

\* Conversion to size_t: the value modulo 2^64 = 16 * 2^60.
ToSizeT(a) == [top |-> a.top % 16, hi |-> a.hi, lo |-> a.lo]

\* Conversion to ssize_t: the low 64 bits, read as two's complement.
ToSSizeT(a) ==
  LET t16 == a.top % 16
  IN  [top |-> IF t16 >= 8 THEN t16 - 16 ELSE t16, hi |-> a.hi, lo |-> a.lo]

-----------------------------------------------------------------------------
(* Errors: what() of the cudf::logic_error that CUDF_EXPECTS / CUDF_FAIL    *)
(* throws names the source line and the reason.                            *)

NoError == [at |-> <<>>, reason |-> "none"]

\* CUDF_EXPECTS(false, reason) at the given source line.
Failure(line, reason) == [at |-> <<line>>, reason |-> reason]

\* CUDF_FAIL("" + cause.what()) at the given source line: the message embeds
\* the cause's.
FailWith(line, cause) == [at |-> <<line>> \o cause.at, reason |-> cause.reason]

-----------------------------------------------------------------------------
(* cufile_config: the policy singleton                                     *)

default_policy == "OFF"

\* A file: whether it exists, and its lines.
NoFile == [exists |-> FALSE, lines |-> <<>>]

File(lines) == [exists |-> TRUE, lines |-> lines]

cudf_config_path == "tmp_config_dir/cufile.json"

\* getenv_or(name, default)
getenv_or(value, default) == IF value = "unset" THEN default ELSE value

is_enabled(cfg) == cfg.policy \in {"GDS", "ALWAYS"}

is_required(cfg) == cfg.policy = "ALWAYS"

\* line.find(tag) != npos for tag = "allow_compat_mode" in quotes.
HasTag(line) == line.key = "allow_compat_mode"

\* compat_value with the two values exchanged.
compat_value_exchanged(cfg) == IF is_required(cfg) THEN "false" ELSE "true"

\* The value written after the tag.
compat_value(cfg) == IF is_required(cfg) THEN "true" ELSE "false"

\* cudf_config_file << tag << ": " << value << ",\n"
CompatLine(cfg) == [key |-> "allow_compat_mode", rest |-> <<": ", compat_value(cfg), ",">>]

\* setenv_keep of a setenv(name, value, 1), which replaces an existing value.
setenv_overwriting(old, value) == value

\* setenv(name, value, 0): an existing value is kept.
setenv_keep(old, value) == IF old = "unset" THEN value ELSE old

\* The while (std::getline(...)) loop: out is the rewritten file so far and
\* json the value of CUFILE_ENV_PATH_JSON.
RECURSIVE ConfigLoop(_, _, _, _, _)
ConfigLoop(i, lines, cfg, out, json) ==
  IF i <= Len(lines)
  THEN ConfigLoop(i + 1, lines, cfg,
                  Append(out, IF HasTag(lines[i]) THEN CompatLine(cfg) ELSE lines[i]),
                  setenv_keep(json, cudf_config_path))
  ELSE [file |-> out, json |-> json]

\* cufile_config::cufile_config(): the singleton, the rewritten file and the
\* environment it leaves.  A user file that cannot be opened yields no line.
cufile_config_ctor(e, user) ==
  LET cfg == [constructed |-> TRUE, policy |-> getenv_or(e.policy, default_policy)]
      done == ConfigLoop(1, IF user.exists THEN user.lines ELSE <<>>, cfg, <<>>, e.json)
  IN  IF is_enabled(cfg)
      THEN [config |-> cfg, cudfConfig |-> File(done.file),
            env |-> [e EXCEPT !.json = done.json]]
      ELSE [config |-> cfg, cudfConfig |-> NoFile, env |-> e]

-----------------------------------------------------------------------------
(* cufile_shim: the dynamically loaded library and the driver              *)

Symbols == <<"cuFileDriverOpen", "cuFileDriverClose", "cuFileHandleRegister",
             "cuFileHandleDeregister", "cuFileRead", "cuFileWrite">>

\* The source line of the CUDF_EXPECTS that follows each dlsym.
SymbolLine == <<124, 126, 129, 132, 135, 137>>

NoShim ==
  [constructed |-> FALSE, cf_lib |-> "null", resolved |-> {}, init_error |-> NoError]

is_valid(s) == s.init_error = NoError

\* The try block from the first dlsym on: the symbols are resolved in order
\* until one is missing, and driver_open is called once all are there.
RECURSIVE ResolveFrom(_, _, _, _)
ResolveFrom(k, s, available, driverOk) ==
  IF k > Len(Symbols)
  THEN IF driverOk THEN s
       ELSE [s EXCEPT !.init_error = Failure(139, "Failed to initialize cuFile driver")]
  ELSE IF Symbols[k] \in available
       THEN ResolveFrom(k + 1, [s EXCEPT !.resolved = @ \cup {Symbols[k]}], available, driverOk)
       ELSE [s EXCEPT !.init_error = Failure(SymbolLine[k], Symbols[k])]

\* cufile_shim::cufile_shim(): loaded says whether dlopen returns a handle,
\* available which symbols dlsym finds, driverOk what cuFileDriverOpen reports.
cufile_shim_ctor(loaded, available, driverOk) ==
  ResolveFrom(1, [constructed |-> TRUE, cf_lib |-> IF loaded THEN "libcufile.so" ELSE "null",
                  resolved |-> {}, init_error |-> NoError],
              available, driverOk)

\* NeedsConstruction of a shim that is constructed again while it is invalid.
NeedsConstructionRetrying(s) == ~s.constructed \/ ~is_valid(s)

\* Whether the function-local static _instance is still to be constructed.
NeedsConstruction(s) == ~s.constructed

\* instance_throws of an instance() that returns the shim whatever its state.
instance_throws_never(s) == NoError

\* What cufile_shim::instance() throws once _instance exists.
instance_throws(s) ==
  IF ~is_valid(s) THEN FailWith(149, s.init_error) ELSE NoError

\* cufile_shim::instance(): the singleton, the loader and driver calls made
\* and the exception thrown, if any.
cufile_shim_instance(s, o, loaded, available, driverOk) ==
  LET build == NeedsConstruction(s)
      s1    == IF build THEN cufile_shim_ctor(loaded, available, driverOk) ELSE s
      o1    == [o EXCEPT !.instanceCalls = @ + 1,
                         !.firstInitError = IF build /\ @ = NoError THEN s1.init_error ELSE @,
                         !.dlopenCalls = IF build THEN @ + 1 ELSE @,
                         !.driverOpenCalls =
                            IF build /\ Len(Symbols) = Cardinality(s1.resolved)
                            THEN @ + 1 ELSE @]
  IN  [shim |-> s1, os |-> o1, thrown |-> instance_throws(s1)]

\* cufile_shim::~cufile_shim(): driver_close(), then dlclose(cf_lib), each
\* with the member's value whatever it is.  A call through a null
\* driver_close is undefined: the process is killed there (killed) or goes on.
cufile_shim_dtor(s, killed) ==
  LET resolved == "cuFileDriverClose" \in s.resolved
      first    == [call |-> "driver_close",
                   target |-> IF resolved THEN "cuFileDriverClose" ELSE "null"]
  IN  IF ~resolved /\ killed THEN <<first>>
      ELSE <<first, [call |-> "dlclose", target |-> s.cf_lib]>>

-----------------------------------------------------------------------------
(* file_wrapper and cufile_registered_file                                 *)

\* get_file_size(fd): fstat fails on -1 and wherever the system says so.
get_file_size_throws(fd, fstatOk) ==
  IF fd = -1 \/ ~fstatOk THEN Failure(34, "Cannot query file size") ELSE NoError

\* file_wrapper::file_wrapper(filepath, flags[, mode]): fd is initialised by
\* open, then _size by get_file_size(fd), then the body checks fd.
file_wrapper_ctor(o, openOk, fstatOk) ==
  LET fd   == IF openOk THEN o.nextFd ELSE -1
      o1   == IF openOk THEN [o EXCEPT !.nextFd = @ + 1, !.openFds = @ \cup {fd}] ELSE o
      size == get_file_size_throws(fd, fstatOk)
  IN  IF size # NoError THEN [os |-> o1, fd |-> fd, thrown |-> size]
      ELSE IF fd = -1 THEN [os |-> o1, fd |-> fd, thrown |-> Failure(41, "Cannot open file")]
      ELSE [os |-> o1, fd |-> fd, thrown |-> NoError]

\* file_wrapper::~file_wrapper(): close(fd).
file_wrapper_dtor(o, fd) ==
  [o EXCEPT !.openFds = @ \ {fd}, !.fdLog = Append(@, [call |-> "close", fd |-> fd])]

\* cufile_registered_file(shim, filepath, flags[, mode]): the file_wrapper
\* member, then register_handle(); when that throws the member is destroyed.
cufile_registered_file_ctor(o, openOk, fstatOk, registerOk) ==
  LET file == file_wrapper_ctor(o, openOk, fstatOk)
  IN  IF file.thrown # NoError THEN file
      ELSE IF ~registerOk
           THEN [os |-> file_wrapper_dtor(file.os, file.fd), fd |-> file.fd,
                 thrown |-> Failure(159, "Cannot register file handle with cuFile")]
           ELSE [os |-> [file.os EXCEPT !.registered = @ \cup {file.fd}], fd |-> file.fd,
                 thrown |-> NoError]

\* shim->handle_deregister(cf_handle)
handle_deregister(o, fd) ==
  [o EXCEPT !.registered = @ \ {fd},
            !.fdLog = Append(@, [call |-> "cuFileHandleDeregister", fd |-> fd])]

\* cufile_registered_file_dtor of a class whose file member is released before
\* the handle is deregistered.
cufile_registered_file_dtor_closing_first(o, fd) ==
  handle_deregister(file_wrapper_dtor(o, fd), fd)

\* cufile_registered_file::~cufile_registered_file(): the body deregisters the
\* handle, then the file_wrapper member is destroyed.
cufile_registered_file_dtor(o, fd) ==
  file_wrapper_dtor(handle_deregister(o, fd), fd)

-----------------------------------------------------------------------------
(* make_cufile_input / make_cufile_output                                  *)

\* cufile_config::instance(): the function-local static is constructed by the
\* first call.
cufile_config_instance(cfg, file, e, user) ==
  IF cfg.constructed THEN [config |-> cfg, cudfConfig |-> file, env |-> e]
  ELSE cufile_config_ctor(e, user)

\* attempts_cufile of a factory that does not consult the policy.
attempts_cufile_always(cfg) == TRUE

\* The factories' if (cufile_config::instance()->is_enabled()).
attempts_cufile(cfg) == is_enabled(cfg)

\* catch_all of a factory that swallows the exception under every policy.
catch_all_swallowing(cfg, caught) == [result |-> "null", raised |-> NoError]

\* The factories' catch (...) { if (is_required()) throw; } and return nullptr.
catch_all(cfg, caught) ==
  IF is_required(cfg) THEN [result |-> "raise", raised |-> caught]
  ELSE [result |-> "null", raised |-> NoError]

\* std::make_unique<cufile_input_impl / cufile_output_impl>(filepath): the
\* shim member first, then the registered file, then the pool.
cufile_impl_ctor(s, o, loaded, available, driverOk, openOk, fstatOk, registerOk) ==
  LET inst == cufile_shim_instance(s, o, loaded, available, driverOk)
      file == cufile_registered_file_ctor(inst.os, openOk, fstatOk, registerOk)
  IN  IF inst.thrown # NoError
      THEN [shim |-> inst.shim, os |-> inst.os, fd |-> -1, open |-> "none",
            thrown |-> inst.thrown]
      ELSE [shim |-> inst.shim, os |-> file.os, fd |-> file.fd,
            open |-> IF file.fd = -1 THEN "failed" ELSE "opened", thrown |-> file.thrown]

MaxFactoryCalls == 3

SymbolSet == {Symbols[k] : k \in DOMAIN Symbols}

\* What dlsym may find: every symbol, every symbol but one, or none.
AvailableSets == {SymbolSet} \cup {SymbolSet \ {x} : x \in SymbolSet} \cup {{}}

\* What the loader and the driver may answer while the shim is constructed
\* (driver_open is reached only with every symbol found); a call that does
\* not construct the shim asks them nothing.
ShimAnswers(cfg, s) ==
  IF attempts_cufile(cfg) /\ NeedsConstruction(s)
  THEN {a \in [loaded : BOOLEAN, available : AvailableSets, driverOk : BOOLEAN] :
          a.available # SymbolSet => a.driverOk}
  ELSE {[loaded |-> FALSE, available |-> {}, driverOk |-> FALSE]}

\* What the file system and cuFileHandleRegister may answer: open fails, fstat
\* fails, registration fails, or all succeed.
FileAnswers ==
  {[openOk |-> FALSE, fstatOk |-> FALSE, registerOk |-> FALSE],
   [openOk |-> TRUE,  fstatOk |-> FALSE, registerOk |-> FALSE],
   [openOk |-> TRUE,  fstatOk |-> TRUE,  registerOk |-> FALSE],
   [openOk |-> TRUE,  fstatOk |-> TRUE,  registerOk |-> TRUE]}

\* make_cufile_input(filepath) for kind "input", make_cufile_output(filepath)
\* for kind "output", with what the loader, the driver and the file system
\* answer during the call.
MakeCufile(kind, sa, fa) ==
  /\ os.factoryCalls < MaxFactoryCalls
  /\ ~os.exited
  /\ LET pol  == cufile_config_instance(config, cudfConfig, env, userConfig)
         o0   == [os EXCEPT !.factoryCalls = @ + 1]
         impl == cufile_impl_ctor(shim, o0, sa.loaded, sa.available, sa.driverOk,
                                  fa.openOk, fa.fstatOk, fa.registerOk)
         out  == IF impl.thrown = NoError
                 THEN [result |-> "engine", raised |-> NoError]
                 ELSE catch_all(pol.config, impl.thrown)
     IN  /\ config' = pol.config
         /\ cudfConfig' = pol.cudfConfig
         /\ env' = pol.env
         /\ IF attempts_cufile(pol.config)
            THEN /\ shim' = impl.shim
                 /\ os' = impl.os
                 /\ engines' = IF impl.thrown = NoError
                               THEN engines \cup {[id |-> o0.factoryCalls, kind |-> kind,
                                                   fd |-> impl.fd]}
                               ELSE engines
                 /\ lastCall' = [fn |-> kind, open |-> impl.open, caught |-> impl.thrown,
                                 result |-> out.result, raised |-> out.raised]
            ELSE /\ shim' = shim
                 /\ os' = o0
                 /\ engines' = engines
                 /\ lastCall' = [fn |-> kind, open |-> "none", caught |-> NoError,
                                 result |-> "null", raised |-> NoError]
  /\ UNCHANGED <<userConfig, calls>>

PolicyAtCall == cufile_config_instance(config, cudfConfig, env, userConfig).config

make_cufile_input ==
  \E sa \in ShimAnswers(PolicyAtCall, shim), fa \in FileAnswers :
    MakeCufile("input", sa, fa)

make_cufile_output ==
  \E sa \in ShimAnswers(PolicyAtCall, shim), fa \in FileAnswers :
    MakeCufile("output", sa, fa)

-----------------------------------------------------------------------------
(* make_sliced_tasks                                                       *)

max_slice_bytes == 4 * 1024 * 1024

\* util::div_rounding_up_safe(dividend, divisor): the quotient rounded up, as
\* a count (the dividend is below 2^60 and the divisor divides 2^30).
div_rounding_up_safe(dividend, divisor) ==
  dividend.hi * (LimbBase \div divisor) + (dividend.lo \div divisor)
    + (IF dividend.lo % divisor # 0 THEN 1 ELSE 0)

\* The size of slice t of n_slices.
slice_size(t, n_slices, size) ==
  IF t = n_slices - 1 THEN Mod(size, max_slice_bytes) ELSE W(max_slice_bytes)

\* The current device of a thread that has not run the task yet.
NoDevice == -1

\* One submitted slice task: function(ptr + slice_offset, slice_size,
\* offset + slice_offset), queued in the pool; its future holds nothing yet.
\* thread_device is the current device of the worker thread that runs it.
SliceTask(slice_offset, ssize, offset) ==
  [ptr |-> slice_offset, size |-> ssize, offset |-> Plus(offset, slice_offset),
   status |-> "queued", result |-> "none", value |-> W(0), thread_device |-> NoDevice]

\* loop_continues of a loop that tests its condition after the body.
loop_continues_do_while(call) == call.t = 0 \/ call.t < call.n_slices

\* The condition of the for loop of make_sliced_tasks: t < n_slices.
loop_continues(call) == call.t < call.n_slices

\* pool_submit of a task that is made but not handed to the pool.
pool_submit_deferred(queue, c, t) == queue

\* pool.submit(function, ...): slice t of call c goes to the end of the queue.
pool_submit(queue, c, t) == Append(queue, <<c, t>>)

\* One iteration of the for loop of make_sliced_tasks, on the call's loop
\* variables t and slice_offset and its slice_tasks.
make_sliced_tasks_iteration(call) ==
  LET ssize == slice_size(call.t, call.n_slices, call.size)
  IN  [call EXCEPT !.tasks = Append(@, SliceTask(call.slice_offset, ssize, call.offset)),
                   !.slice_offset = Plus(@, ssize),
                   !.t = @ + 1]

-----------------------------------------------------------------------------
(* The slice tasks and the thread pool                                     *)

PoolThreads == 16

\* The devices a calling thread, or a pool worker, may be bound to.
Devices == {0, 1}

\* cudaSetDevice of a slice task that leaves the worker's device as it is.
cudaSetDevice_skipped(current, device) == current

\* cudaSetDevice(device) on a thread whose current device is current: the
\* thread's current device afterwards.
cudaSetDevice(current, device) == device

\* What cuFileRead / cuFileWrite may return for a request of ssize bytes: the
\* full count, a short count, -1 (errno is set) or the negative of a
\* CUfileOpError value.
BackendResults(ssize) == {ssize, W(0), W(-1), W(-5001)}

ReadError  == "cuFile error reading from a file"
WriteError == "cuFile error writing to a file"

\* read_slice: what the task's future holds once gds_read returned read_size.
read_slice(task, read_size) ==
  IF read_size # W(-1)
  THEN [task EXCEPT !.status = "done", !.result = "value", !.value = read_size]
  ELSE [task EXCEPT !.status = "done", !.result = ReadError]

\* write_slice: what the task's future holds once gds_write returned write_size.
write_slice(task, write_size) ==
  IF write_size # W(-1) /\ write_size = ToSSizeT(task.size)
  THEN [task EXCEPT !.status = "done", !.result = "value"]
  ELSE [task EXCEPT !.status = "done", !.result = WriteError]

Running(op) ==
  {ct \in UNION {{<<c, t>> : t \in DOMAIN calls.list[c].tasks} :
                    c \in {d \in DOMAIN calls.list : calls.list[d].op = op}} :
     calls.list[ct[1]].tasks[ct[2]].status = "running"}

-----------------------------------------------------------------------------
(* read_async, write_async and the deferred waiters                        *)

\* The call on entry: the device is captured, n_slices is computed and the
\* loop of make_sliced_tasks is about to start.
NewCall(op, blocking, device, offset, size) ==
  [op |-> op, blocking |-> blocking, device |-> device, offset |-> offset, size |-> size,
   n_slices |-> div_rounding_up_safe(size, max_slice_bytes), t |-> 0, slice_offset |-> W(0),
   tasks |-> <<>>, mode |-> "none", fut |-> "submitting",
   wi |-> 1, sum |-> W(0), value |-> W(0), error |-> "none", ret |-> "none"]

\* The read waiter's std::accumulate with the int initial value 0: one
\* application of its lambda to the task the waiter has reached.
read_waiter_step(call) ==
  LET task == call.tasks[call.wi]
  IN  IF task.result = "value"
      THEN [call EXCEPT !.sum = ToInt(Plus(call.sum, task.value)), !.wi = call.wi + 1]
      ELSE [call EXCEPT !.fut = "exception", !.error = task.result]

\* The read waiter's return: the int sum converted to size_t.
read_waiter_return(call) ==
  [call EXCEPT !.fut = "value", !.value = ToSizeT(call.sum)]

\* The write waiter's loop body: task.wait().
write_waiter_step(call) == [call EXCEPT !.wi = call.wi + 1]

write_waiter_return(call) == [call EXCEPT !.fut = "value"]

\* What the caller of get() or wait() observes once the deferred function ran:
\* get() rethrows a stored exception, wait() returns.
Observe(call) ==
  [call EXCEPT !.ret = IF call.fut = "exception" /\ call.mode = "get"
                       THEN "threw" ELSE "returned"]

HasEngine(kind) == \E e \in engines : e.kind = kind

lifecycle == <<env, userConfig, cudfConfig, config, shim, os, engines, lastCall>>

\* cufile_input_impl::read_async(offset, size, dst, stream) on a thread whose
\* current device is device.
ReadAsync(offset, size, device) ==
  /\ HasEngine("input")
  /\ calls' = [calls EXCEPT !.list = Append(@, NewCall("read", FALSE, device, offset, size))]
  /\ UNCHANGED lifecycle

\* cufile_input_impl::read(offset, size, dst, stream): read_async, then get().
Read(offset, size, device) ==
  /\ HasEngine("input")
  /\ calls' = [calls EXCEPT !.list = Append(@, NewCall("read", TRUE, device, offset, size))]
  /\ UNCHANGED lifecycle

\* cufile_output_impl::write_async(data, offset, size).
WriteAsync(offset, size, device) ==
  /\ HasEngine("output")
  /\ calls' = [calls EXCEPT !.list = Append(@, NewCall("write", FALSE, device, offset, size))]
  /\ UNCHANGED lifecycle

\* cufile_output_impl::write(data, offset, size): write_async, then wait().
Write(offset, size, device) ==
  /\ HasEngine("output")
  /\ calls' = [calls EXCEPT !.list = Append(@, NewCall("write", TRUE, device, offset, size))]
  /\ UNCHANGED lifecycle

\* One iteration of make_sliced_tasks: pool.submit puts the slice task at the
\* end of the queue of the engine's pool.
SubmitSlice(c) ==
  /\ c \in DOMAIN calls.list
  /\ calls.list[c].fut = "submitting"
  /\ loop_continues(calls.list[c])
  /\ calls' = [calls EXCEPT !.list[c] = make_sliced_tasks_iteration(@),
                            ![calls.list[c].op] = pool_submit(@, c, calls.list[c].t + 1)]
  /\ UNCHANGED lifecycle

\* The loop is over: std::async(std::launch::deferred, waiter, slice_tasks) is
\* returned; read() calls get() on it and write() calls wait().
MakeFuture(c) ==
  /\ c \in DOMAIN calls.list
  /\ calls.list[c].fut = "submitting"
  /\ ~loop_continues(calls.list[c])
  /\ LET call == calls.list[c]
     IN  calls' = [calls EXCEPT !.list[c] =
                     IF call.blocking
                     THEN [call EXCEPT !.fut = "waiting",
                                       !.mode = IF call.op = "read" THEN "get" ELSE "wait"]
                     ELSE [call EXCEPT !.fut = "deferred"]]
  /\ UNCHANGED lifecycle

\* The caller of read_async / write_async calls get() or wait() on the future:
\* the deferred waiter starts on the caller's thread.
FutureWait(c, mode) ==
  /\ c \in DOMAIN calls.list
  /\ calls.list[c].fut = "deferred"
  /\ calls' = [calls EXCEPT !.list[c].mode = mode, !.list[c].fut = "waiting"]
  /\ UNCHANGED lifecycle

\* A pool worker, whose current device is whatever the task it ran last left,
\* takes the task at the head of the queue and sets its device.
StartSlice(op) ==
  /\ calls[op] # <<>>
  /\ Cardinality(Running(op)) < PoolThreads
  /\ \E current \in Devices :
       LET ct == Head(calls[op])
       IN  calls' = [calls EXCEPT ![op] = Tail(@),
                                  !.list[ct[1]].tasks[ct[2]].status = "running",
                                  !.list[ct[1]].tasks[ct[2]].thread_device =
                                     cudaSetDevice(current, calls.list[ct[1]].device)]
  /\ UNCHANGED lifecycle

\* The worker's backend call returns read_size / write_size and the task ends.
FinishSlice(c, t, returned) ==
  /\ c \in DOMAIN calls.list
  /\ t \in DOMAIN calls.list[c].tasks
  /\ calls.list[c].tasks[t].status = "running"
  /\ calls' = [calls EXCEPT !.list[c].tasks[t] =
                 IF calls.list[c].op = "read" THEN read_slice(@, returned)
                                               ELSE write_slice(@, returned)]
  /\ UNCHANGED lifecycle

\* The waiter passes the task it is blocked on, once that task is done.
WaiterStep(c) ==
  /\ c \in DOMAIN calls.list
  /\ calls.list[c].fut = "waiting"
  /\ calls.list[c].wi <= Len(calls.list[c].tasks)
  /\ calls.list[c].tasks[calls.list[c].wi].status = "done"
  /\ LET stepped == IF calls.list[c].op = "read" THEN read_waiter_step(calls.list[c])
                                                 ELSE write_waiter_step(calls.list[c])
     IN  calls' = [calls EXCEPT !.list[c] =
                     IF stepped.fut = "exception" THEN Observe(stepped) ELSE stepped]
  /\ UNCHANGED lifecycle

\* The waiter has passed every task and returns.
WaiterReturn(c) ==
  /\ c \in DOMAIN calls.list
  /\ calls.list[c].fut = "waiting"
  /\ calls.list[c].wi = Len(calls.list[c].tasks) + 1
  /\ calls' = [calls EXCEPT !.list[c] =
                 Observe(IF @.op = "read" THEN read_waiter_return(@)
                                          ELSE write_waiter_return(@))]
  /\ UNCHANGED lifecycle

-----------------------------------------------------------------------------
(* The process from its start: the policy, the shim and the factories      *)

PolicyValues == {"unset", "OFF", "GDS", "ALWAYS"}

OtherLine(text) == [key |-> "other", rest |-> <<text>>]

UserCompatLine(value) == [key |-> "allow_compat_mode", rest |-> <<": ", value, ",">>]

\* The user's cuFile configuration file: absent, empty, without the key, or
\* with the key set either way.
UserConfigs ==
  {NoFile, File(<<>>), File(<<OtherLine("{"), OtherLine("}")>>),
   File(<<OtherLine("{"), UserCompatLine("true"), OtherLine("}")>>),
   File(<<UserCompatLine("false")>>)}

\* CUFILE_ENV_PATH_JSON at process start: not set, or set by the user.
JsonPaths == {"unset", "/home/user/cufile.json"}

NoCalls == [list |-> <<>>, read |-> <<>>, write |-> <<>>]

NoCall ==
  [fn |-> "none", open |-> "none", caught |-> NoError, result |-> "none", raised |-> NoError]

ProcessStart ==
  [factoryCalls |-> 0, instanceCalls |-> 0, dlopenCalls |-> 0, driverOpenCalls |-> 0,
   firstInitError |-> NoError, nextFd |-> 3, openFds |-> {}, registered |-> {},
   fdLog |-> <<>>, destroyed |-> {}, exited |-> FALSE, teardown |-> <<>>]

Init ==
  /\ env \in [policy : PolicyValues, json : JsonPaths, json_at_start : JsonPaths]
  /\ env.json_at_start = env.json
  /\ userConfig \in UserConfigs
  /\ cudfConfig = NoFile
  /\ config = [constructed |-> FALSE, policy |-> "none"]
  /\ shim = NoShim
  /\ os = ProcessStart
  /\ engines = {}
  /\ lastCall = NoCall
  /\ calls = NoCalls

\* The owner of an engine releases it: ~cufile_input_impl / ~cufile_output_impl
\* destroys the cf_file member.
DestroyEngine ==
  \E e \in engines :
    /\ ~os.exited
    /\ engines' = engines \ {e}
    /\ os' = [cufile_registered_file_dtor(os, e.fd) EXCEPT !.destroyed = @ \cup {e.fd}]
    /\ UNCHANGED <<env, userConfig, cudfConfig, config, shim, lastCall, calls>>

\* What a call through a null driver_close may do at exit.
ExitAnswers(s) ==
  IF s.constructed /\ "cuFileDriverClose" \notin s.resolved THEN BOOLEAN ELSE {FALSE}

\* The process exits: the function-local static cufile_shim, if it was
\* constructed, is destroyed.
ProcessExit ==
  \E killed \in ExitAnswers(shim) :
    /\ ~os.exited
    /\ os' = [os EXCEPT !.exited = TRUE,
                        !.teardown = IF shim.constructed THEN cufile_shim_dtor(shim, killed)
                                     ELSE <<>>]
    /\ UNCHANGED <<env, userConfig, cudfConfig, config, shim, engines, lastCall, calls>>

Next == make_cufile_input \/ make_cufile_output \/ DestroyEngine \/ ProcessExit

Spec == Init /\ [][Next]_vars

-----------------------------------------------------------------------------
(* Transfers on an input engine and an output engine that the factories    *)
(* returned with the policy GDS                                            *)

EnginesMade ==
  /\ env = [policy |-> "GDS", json |-> "unset", json_at_start |-> "unset"]
  /\ userConfig = NoFile
  /\ cudfConfig = File(<<>>)
  /\ config = [constructed |-> TRUE, policy |-> "GDS"]
  /\ shim = [constructed |-> TRUE, cf_lib |-> "libcufile.so", resolved |-> SymbolSet,
             init_error |-> NoError]
  /\ os = [factoryCalls |-> 2, instanceCalls |-> 2, dlopenCalls |-> 1, driverOpenCalls |-> 1,
           firstInitError |-> NoError, nextFd |-> 5, openFds |-> {3, 4}, registered |-> {3, 4},
           fdLog |-> <<>>, destroyed |-> {}, exited |-> FALSE, teardown |-> <<>>]
  /\ engines = {[id |-> 1, kind |-> "input", fd |-> 3], [id |-> 2, kind |-> "output", fd |-> 4]}
  /\ lastCall = [fn |-> "output", open |-> "opened", caught |-> NoError, result |-> "engine",
                 raised |-> NoError]

InitIO == EnginesMade /\ calls = NoCalls

MiB == 1024 * 1024

Offsets == {W(0), W(4096)}

MaxFullSlices == 2

\* Request sizes: up to MaxFullSlices whole slices plus nothing, one byte,
\* 2 MiB or one byte less than a slice (10 MiB is two slices and 2 MiB).
Sizes ==
  {W(k * max_slice_bytes + r) :
     k \in 0 .. MaxFullSlices, r \in {0, 1, 2 * MiB, max_slice_bytes - 1}}

\* A transfer call, made while fewer than limit calls have been made.
Transfer(sizes, limit) ==
  \E offset \in Offsets, size \in sizes, device \in Devices :
    /\ Len(calls.list) < limit
    /\ \/ ReadAsync(offset, size, device)
       \/ Read(offset, size, device)
       \/ WriteAsync(offset, size, device)
       \/ Write(offset, size, device)

Wait == \E c \in DOMAIN calls.list, mode \in {"get", "wait"} : FutureWait(c, mode)

Start == \E op \in {"read", "write"} : StartSlice(op)

Finish ==
  \E c \in DOMAIN calls.list :
    \E t \in DOMAIN calls.list[c].tasks :
      \E returned \in BackendResults(calls.list[c].tasks[t].size) : FinishSlice(c, t, returned)

Waiter == \E c \in DOMAIN calls.list : WaiterStep(c) \/ WaiterReturn(c)

Submit == \E c \in DOMAIN calls.list : SubmitSlice(c) \/ MakeFuture(c)

NextIO == Transfer(Sizes, 1) \/ Submit \/ Wait \/ Start \/ Finish \/ Waiter

SpecIO == InitIO /\ [][NextIO]_vars

-----------------------------------------------------------------------------
(* Reads of 2 GiB and more.  The slices are run one after the other and    *)
(* the backend returns full counts; the waiter runs once the pool is idle. *)
(* Every behaviour is one of the program's.                                *)

\* 2 GiB, and 2 GiB + 4 bytes.
LargeSizes == {Wide(0, 2, 0), Wide(0, 2, 4)}

PoolIdle == calls.read = <<>> /\ calls.write = <<>> /\ Running("read") = {} /\ Running("write") = {}

Submitted == \A c \in DOMAIN calls.list : calls.list[c].fut # "submitting"

TransferLarge ==
  \E size \in LargeSizes :
    /\ calls.list = <<>>
    /\ (ReadAsync(W(0), size, 0) \/ Read(W(0), size, 0))

FinishFull ==
  \E c \in DOMAIN calls.list :
    \E t \in DOMAIN calls.list[c].tasks : FinishSlice(c, t, calls.list[c].tasks[t].size)

NextLarge ==
  \/ TransferLarge
  \/ Submit
  \/ (Submitted /\ Running("read") = {} /\ StartSlice("read"))
  \/ FinishFull
  \/ (PoolIdle /\ FutureWait(1, "get"))
  \/ (PoolIdle /\ Waiter)

SpecLarge == InitIO /\ [][NextLarge]_vars

-----------------------------------------------------------------------------
(* One transfer with the pool's workers scheduled fairly: a worker that can *)
(* take a task does, and a backend call returns.  Nothing obliges the      *)
(* caller to go on submitting or to wait on the future.                    *)

SpecFair == SpecIO /\ WF_vars(Start) /\ WF_vars(Finish)

-----------------------------------------------------------------------------
(* Concurrent transfers: calls made from threads bound to either device,   *)
(* whose slice tasks share the pools' workers.                             *)

\* One byte (one slice), or one byte more than all but one of MaxFullSlices
\* whole slices (MaxFullSlices slices).
ConcurrentSizes == {W(1), W((MaxFullSlices - 1) * max_slice_bytes + 1)}

\* An asynchronous transfer call, the first or the second.
TransferConcurrent ==
  \E size \in ConcurrentSizes, device \in Devices :
    /\ Len(calls.list) < 2
    /\ (ReadAsync(W(0), size, device) \/ WriteAsync(W(0), size, device))

WaitGet == \E c \in DOMAIN calls.list : FutureWait(c, "get")

NextConcurrent ==
  \/ TransferConcurrent
  \/ Submit
  \/ WaitGet
  \/ Start
  \/ FinishFull
  \/ Waiter

SpecConcurrent == InitIO /\ [][NextConcurrent]_vars

-----------------------------------------------------------------------------
(* Properties                                                              *)

ByteRangeCovered(call) ==
  LET n == Len(call.tasks)
  IN  /\ \A i \in 1 .. n :
           /\ call.tasks[i].ptr = IF i = 1 THEN W(0)
                                  ELSE Plus(call.tasks[i - 1].ptr, call.tasks[i - 1].size)
           /\ call.tasks[i].offset = Plus(call.offset, call.tasks[i].ptr)
           /\ ~Less(W(max_slice_bytes), call.tasks[i].size)
      /\ call.size = IF n = 0 THEN W(0) ELSE Plus(call.tasks[n].ptr, call.tasks[n].size)
      /\ call.size = W(10 * MiB) =>
           [i \in 1 .. n |-> call.tasks[i].size] = <<W(4 * MiB), W(4 * MiB), W(2 * MiB)>>

\* C1: once make_sliced_tasks has returned, the slices of every transfer are
\* consecutive from the start of the buffer and of the file range, none is
\* longer than 4 MiB, and their lengths add up to the requested size (4, 4 and
\* 2 MiB for 10 MiB).
C1_SlicesCoverRange ==
  \A c \in DOMAIN calls.list :
    calls.list[c].fut # "submitting" => ByteRangeCovered(calls.list[c])

\* C2: a write whose wait has ended and one of whose slices failed has thrown
\* that slice's error to the waiting caller.
C2_FailedWriteSliceFailsTheWait ==
  \A c \in DOMAIN calls.list :
    LET call == calls.list[c]
    IN  (/\ call.op = "write"
         /\ call.ret # "none"
         /\ \E t \in DOMAIN call.tasks : call.tasks[t].result = WriteError)
        => call.ret = "threw" /\ call.error = WriteError

RECURSIVE SumOfCounts(_, _, _)
SumOfCounts(tasks, lo, hi) ==
  IF lo > hi THEN W(0)
  ELSE IF lo = hi THEN tasks[lo].value
  ELSE Plus(SumOfCounts(tasks, lo, (lo + hi) \div 2),
            SumOfCounts(tasks, (lo + hi) \div 2 + 1, hi))

\* C3: the value of a read future that resolved without a slice failing is the
\* exact sum of the byte counts its slices returned.
C3_ReadTotalIsExactSum ==
  \A c \in DOMAIN calls.list :
    LET call == calls.list[c]
    IN  (call.op = "read" /\ call.fut = "value")
        => call.value = SumOfCounts(call.tasks, 1, Len(call.tasks))

\* C4: a factory call whose engine construction threw raises that very error
\* when the policy is required, and returns null without raising when the
\* policy is optional.
C4_ConstructionFailureFollowsPolicy ==
  lastCall.caught # NoError =>
    IF is_required(config)
    THEN lastCall.result = "raise" /\ lastCall.raised = lastCall.caught
    ELSE lastCall.result = "null" /\ lastCall.raised = NoError

C4_RequiredRegistrationFailureRaised ==
  /\ os.factoryCalls >= 2
  /\ engines # {}
  /\ is_required(config)
  /\ lastCall.result = "raise"
  /\ lastCall.raised = Failure(159, "Cannot register file handle with cuFile")

CompatLinesSetTo(whenRequired, whenOptional) ==
  (config.constructed /\ is_enabled(config)) =>
    /\ cudfConfig.exists
    /\ Len(cudfConfig.lines) = Len(userConfig.lines)
    /\ \A i \in DOMAIN userConfig.lines :
         HasTag(userConfig.lines[i]) =>
           cudfConfig.lines[i] = UserCompatLine(IF is_required(config) THEN whenRequired
                                          ELSE whenOptional)

\* C5, as the claim states it: with the policy enabled, each line of the user's
\* file that holds the allow_compat_mode key is rewritten to set it to true
\* when the policy is optional and to false when it is required.
C5_CompatTrueWhenOptional == CompatLinesSetTo("false", "true")

\* C5, amended: with the policy enabled, each line of the user's file that
\* holds the allow_compat_mode key is rewritten to set it to true when the
\* policy is required and to false when it is optional.
C5_CompatTrueWhenRequired == CompatLinesSetTo("true", "false")

C5_OptionalRewroteTrueToFalse ==
  /\ config.constructed
  /\ config.policy = "GDS"
  /\ \E i \in DOMAIN userConfig.lines :
       /\ userConfig.lines[i] = UserCompatLine("true")
       /\ cudfConfig.lines[i] = UserCompatLine("false")

\* C6: the library is loaded at most once and cuFileDriverOpen is called at
\* most once, however many times the shim instance was requested, and the one
\* load happened if it was requested at all.
C6_ShimInitialisedAtMostOnce ==
  /\ os.dlopenCalls <= 1
  /\ os.driverOpenCalls <= 1
  /\ os.instanceCalls >= 1 => os.dlopenCalls = 1

C6_ThreeRequestsOneLoad ==
  os.instanceCalls = 3 /\ os.dlopenCalls = 1 /\ os.driverOpenCalls = 1

\* C7: once the construction of the shim has failed, the shim is invalid and
\* holds the error captured then, the latest request for the instance threw
\* the error made from that cause, and no engine exists.
C7_InvalidShimStaysInvalid ==
  os.firstInitError # NoError =>
    /\ ~is_valid(shim)
    /\ shim.init_error = os.firstInitError
    /\ lastCall.caught = FailWith(149, os.firstInitError)
    /\ engines = {}

C7_InvalidShimRequestedAgain ==
  /\ os.firstInitError # NoError
  /\ os.instanceCalls >= 2
  /\ lastCall.caught = FailWith(149, shim.init_error)

\* C8: with the policy off, whatever factory calls were made, the latest one
\* returned null, the shim is unconstructed, nothing was loaded, opened or
\* registered, and no engine exists.
C8_PolicyOffTouchesNothing ==
  (config.constructed /\ ~is_enabled(config)) =>
    /\ lastCall.result = "null"
    /\ shim = NoShim
    /\ os = [ProcessStart EXCEPT !.factoryCalls = os.factoryCalls, !.exited = os.exited]
    /\ engines = {}

C8_PolicyOffCalledTwice ==
  /\ config.constructed
  /\ ~is_enabled(config)
  /\ os.factoryCalls >= 2
  /\ lastCall.result = "null"

\* C9: a factory call whose open() failed threw "Cannot open file", and one
\* that threw "Cannot query file size" had opened the file.
C9_OpenFailureRaisesOpenError ==
  /\ lastCall.open = "failed" => lastCall.caught.reason = "Cannot open file"
  /\ lastCall.caught.reason = "Cannot query file size" => lastCall.open = "opened"

\* C10: no read slice task that ended holds a negative number as its byte
\* count.
C10_NegativeReadResultFails ==
  \A c \in DOMAIN calls.list :
    \A t \in DOMAIN calls.list[c].tasks :
      LET task == calls.list[c].tasks[t]
      IN  (calls.list[c].op = "read" /\ task.status = "done" /\ task.result = "value")
          => ~IsNegative(task.value)

\* The positions in the log of the calls of the given kind on descriptor fd.
CallsOn(call, fd) ==
  {i \in DOMAIN os.fdLog : os.fdLog[i] = [call |-> call, fd |-> fd]}

Opened == 3 .. (os.nextFd - 1)

\* C11: the handle of a registered file is deregistered at most once and
\* before every close of its descriptor, and a registered file that was
\* destroyed had exactly one deregister call and exactly one close call.
C11_DeregisterBeforeClose ==
  \A fd \in Opened :
    /\ Cardinality(CallsOn("cuFileHandleDeregister", fd)) <= 1
    /\ \A i \in CallsOn("cuFileHandleDeregister", fd), j \in CallsOn("close", fd) : i < j
    /\ fd \in os.destroyed =>
         /\ Cardinality(CallsOn("cuFileHandleDeregister", fd)) = 1
         /\ Cardinality(CallsOn("close", fd)) = 1

C11_TwoEnginesDestroyed ==
  /\ Cardinality(os.destroyed) = 2
  /\ \A fd \in os.destroyed :
       CallsOn("cuFileHandleDeregister", fd) # {} /\ CallsOn("close", fd) # {}

\* C12: a CUFILE_ENV_PATH_JSON that was set at process start keeps its value.
C12_ExistingJsonPathKept ==
  env.json_at_start # "unset" => env.json = env.json_at_start

C12_SetenvCalledOnSetVariable ==
  /\ config.constructed
  /\ is_enabled(config)
  /\ userConfig.exists
  /\ Len(userConfig.lines) >= 1
  /\ env.json_at_start = "/home/user/cufile.json"
  /\ env.json = "/home/user/cufile.json"

\* C14: once the policy singleton is constructed with the policy enabled and
\* CUFILE_ENV_PATH_JSON was not set at process start, the variable holds the
\* path of the rewritten file, whatever the user's file is (missing and
\* empty included).
C14_JsonPathSetWhenEnabled ==
  (config.constructed /\ is_enabled(config) /\ env.json_at_start = "unset")
    => env.json = cudf_config_path

\* C18: no descriptor is closed twice, -1 is never closed, and every
\* descriptor that open() returned and that no live engine holds has been
\* closed exactly once.
C18_DescriptorReleasedOnce ==
  /\ CallsOn("close", -1) = {}
  /\ \A fd \in Opened :
       /\ Cardinality(CallsOn("close", fd)) <= 1
       /\ (\A e \in engines : e.fd # fd) =>
            Cardinality(CallsOn("close", fd)) = 1 /\ fd \notin os.openFds

\* C19: at process exit the shim destructor calls no null driver_close and
\* passes no null library handle to dlclose.
C19_TeardownUsesResolvedOnly ==
  \A i \in DOMAIN os.teardown : os.teardown[i].target # "null"

\* C13: a read of zero bytes has no slice and no slice task at any time, its
\* future is deferred until it is waited on, holds no exception, and resolves
\* to 0.
C13_ZeroByteReadResolvesToZero ==
  \A c \in DOMAIN calls.list :
    LET call == calls.list[c]
    IN  (call.op = "read" /\ call.size = W(0)) =>
          /\ call.n_slices = 0
          /\ call.tasks = <<>>
          /\ \A i \in DOMAIN calls.read : calls.read[i][1] # c
          /\ call.fut # "exception"
          /\ call.fut = "value" => call.value = W(0) /\ call.ret = "returned"

C13_ZeroByteFutureResolved ==
  \E c \in DOMAIN calls.list :
    /\ calls.list[c].op = "read"
    /\ ~calls.list[c].blocking
    /\ calls.list[c].size = W(0)
    /\ calls.list[c].mode = "get"
    /\ calls.list[c].fut = "value"
    /\ calls.list[c].value = W(0)

\* The slices of a call, by index, whose task ended with an exception.
FailedSlices(call) ==
  {t \in DOMAIN call.tasks :
     call.tasks[t].status = "done" /\ call.tasks[t].result # "value"}

LowestOf(S) == CHOOSE t \in S : \A u \in S : t <= u

\* The counts of the first n slices added up in index order, as int.
RECURSIVE IntSum(_, _)
IntSum(tasks, n) ==
  IF n = 0 THEN W(0) ELSE ToInt(Plus(IntSum(tasks, n - 1), tasks[n].value))

\* C15: what the future of a transfer holds once its waiter has ended depends
\* on what the slices returned and not on when: with no failed slice a read
\* holds the counts added up in index order and a write holds success; with
\* failed slices, read or write, it holds the error of the failed slice of
\* lowest index.
C15_OutcomeIndependentOfOrder ==
  \A c \in DOMAIN calls.list :
    LET call == calls.list[c]
    IN  call.fut \in {"value", "exception"} =>
          IF FailedSlices(call) = {}
          THEN /\ call.fut = "value"
               /\ call.op = "read" => call.value = ToSizeT(IntSum(call.tasks, Len(call.tasks)))
          ELSE /\ call.fut = "exception"
               /\ call.wi = LowestOf(FailedSlices(call))
               /\ call.error = call.tasks[call.wi].result

\* read(offset, size, stream): the device buffer of size bytes the slices were
\* read into, resized to the read_size that read(offset, size, dst, stream)
\* returned.  written holds, for each slice, where in the buffer its bytes
\* went and how many the backend delivered there.
read_buffer(call) ==
  [length  |-> call.value,
   written |-> [t \in DOMAIN call.tasks |->
                  [at |-> call.tasks[t].ptr, count |-> call.tasks[t].value]]]

\* How far from its start the buffer holds file bytes without a gap, given
\* that it does so up to reach before slice i is looked at.
RECURSIVE FilledUpTo(_, _, _)
FilledUpTo(written, i, reach) ==
  IF i > Len(written) \/ Less(reach, written[i].at) THEN reach
  ELSE LET end == Plus(written[i].at, written[i].count)
       IN  FilledUpTo(written, i + 1, IF Less(reach, end) THEN end ELSE reach)

\* C20: the buffer a blocking read returned holds file bytes in every one of
\* its positions (position p holding the byte at offset + p, since each slice
\* was read from the offset that matches its place in the buffer).
C20_BufferHoldsContiguousBytes ==
  \A c \in DOMAIN calls.list :
    LET call == calls.list[c]
    IN  (call.op = "read" /\ call.blocking /\ call.ret = "returned") =>
          ~Less(FilledUpTo(read_buffer(call).written, 1, W(0)), read_buffer(call).length)

\* C16: every slice task that a worker has taken, of whichever call, runs its
\* backend call on a thread whose current device is the device the call
\* captured.
C16_SliceRunsOnCapturedDevice ==
  \A c \in DOMAIN calls.list :
    \A t \in DOMAIN calls.list[c].tasks :
      calls.list[c].tasks[t].status \in {"running", "done"}
        => calls.list[c].tasks[t].thread_device = calls.list[c].device

C16_TwoDevicesOnePool ==
  /\ Len(calls.list) = 2
  /\ calls.list[1].op = calls.list[2].op
  /\ calls.list[1].device # calls.list[2].device
  /\ Len(calls.list[1].tasks) = 2
  /\ calls.list[1].tasks[1].status = "done"
  /\ calls.list[2].tasks # <<>>
  /\ calls.list[2].tasks[1].status = "done"
  /\ calls.list[1].tasks[2].status = "running"

\* Some slice task that was submitted has not ended.
SlicePending ==
  \E c \in DOMAIN calls.list :
    \E t \in DOMAIN calls.list[c].tasks : calls.list[c].tasks[t].status # "done"

\* The waiter of a future that nobody has waited on has not run.
WaiterNotStarted ==
  \A c \in DOMAIN calls.list :
    calls.list[c].fut \in {"submitting", "deferred"} =>
      calls.list[c].wi = 1 /\ calls.list[c].sum = W(0) /\ calls.list[c].ret = "none"

\* C17: with the workers scheduled fairly, whenever a submitted slice task has
\* not ended there comes a time when every submitted one has, whether or not
\* the caller waits on the future; and the waiter runs no step before
\* somebody waits.
C17_SubmittedSlicesRun == (SlicePending ~> ~SlicePending) /\ []WaiterNotStarted

C17_AllRunNeverWaited ==
  \E c \in DOMAIN calls.list :
    /\ calls.list[c].fut = "deferred"
    /\ Len(calls.list[c].tasks) >= 2
    /\ \A t \in DOMAIN calls.list[c].tasks : calls.list[c].tasks[t].status = "done"

====
